---- MODULE Spec2Model ----
(***************************************************************************)
(* A model of static/js/auth.js: the browser-side helpers of the           *)
(* authentication pages (password strength meter, OTP slot chaining,       *)
(* countdown timer, required-field validation, phone formatting and the    *)
(* authenticated fetch wrapper).                                           *)
(*                                                                         *)
(* JavaScript runs every event handler and timer callback to completion,   *)
(* so each handler is one action.  The only suspension points are the two  *)
(* awaits of makeAuthRequest, which split it into three actions.           *)
(*                                                                         *)
(* Strings are TLA+ strings (TLC evaluates Len, \o and SubSeq on them).    *)
(* The Persian labels of the source are written in Latin transliteration.  *)
(* Each component owns its variables and no two components share state,   *)
(* so a behaviour exercises one component; the components whose DOM        *)
(* elements are not on the page stay in their "absent" state, in which     *)
(* none of their actions is enabled.                                       *)
(***************************************************************************)
EXTENDS Integers, Sequences, FiniteSets, TLC

VARIABLES
    \* ---- Countdown (startCountdown and the page-load seeding) ----
    timerElement,   \* #countdownTimer: [present, hasSeconds, seconds, textContent, color]
    resendBtn,      \* .resend-btn: [present, disabled, textContent]
    seconds,        \* the argument startCountdown was called with
    remaining,      \* the closure's remaining counter
    timer,          \* the interval: "none" | "running" | "cleared"
    ticks,          \* how many times the interval callback has run
    written,        \* the textContent assignments of the latest callback, in order
    \* ---- Password strength meter (checkPasswordStrength) ----
    passwordInput,  \* #password: [present, value]
    strengthFill,   \* #strengthFill: [width, backgroundColor]
    strengthText,   \* #strengthText: [textContent, color]
    strength,       \* the score of the latest call; [called, value]
    \* ---- OTP slots (setupOTPInputs) ----
    otpInputs,      \* the values of the .otp-input slots, a function on 0..N-1
    focus,          \* the index of the focused slot, -1 when focus is elsewhere
    otpEvent,       \* the latest event: [type, index, key, serial]
    \* ---- Form validation (validateForm) ----
    formFields,     \* the form's fields in document order: [required, value, invalid]
    formReturn,     \* the latest call: [called, isValid, visited]
    \* ---- Phone formatting (formatPhoneNumber) ----
    phoneArg,       \* the argument
    phoneReturn,    \* the call: [state, value], state "none" | "pending" | "returned"
    \* ---- Authenticated requests (makeAuthRequest) ----
    cookie,         \* document.cookie
    calls,          \* the makeAuthRequest calls: id -> [pc, token, status, result, ...]
    overlays,       \* the .loading-overlay elements of body in document order, by adding call
    liveToast,      \* #liveToast: [body, className, shows]
    location,       \* window.location.href
    fetchCount,     \* how many times fetch has been invoked
    consoleErrors   \* how many times console.error has been called

cdVars == <<timerElement, resendBtn, seconds, remaining, timer, ticks, written>>
pwVars == <<passwordInput, strengthFill, strengthText, strength>>
otpVars == <<otpInputs, focus, otpEvent>>
formVars == <<formFields, formReturn>>
phoneVars == <<phoneArg, phoneReturn>>
authVars == <<cookie, calls, overlays, liveToast, location, fetchCount, consoleErrors>>

vars == <<cdVars, pwVars, otpVars, formVars, phoneVars, authVars>>

\* What each component's actions leave alone: the other components.
notCdVars == <<pwVars, otpVars, formVars, phoneVars, authVars>>
notPwVars == <<cdVars, otpVars, formVars, phoneVars, authVars>>
notOtpVars == <<cdVars, pwVars, formVars, phoneVars, authVars>>
notFormVars == <<cdVars, pwVars, otpVars, phoneVars, authVars>>
notPhoneVars == <<cdVars, pwVars, otpVars, formVars, authVars>>
notAuthVars == <<cdVars, pwVars, otpVars, formVars, phoneVars>>

----------------------------------------------------------------------------
(* JavaScript numbers and strings *)

\* A JavaScript number that is either an integer or NaN.
Num(v) == [nan |-> FALSE, val |-> v]
NaN == [nan |-> TRUE, val |-> 0]

DecimalDigits == "0123456789"
WhitespaceChars == {" ", "\t", "\n"}

CharAt(s, i) == SubSeq(s, i, i)

IsDigit(c) == \E d \in 1..10 : CharAt(DecimalDigits, d) = c

DigitValue(c) == CHOOSE d \in 0..9 : CharAt(DecimalDigits, d + 1) = c

\* Number.prototype.toString for a non-negative integer.
RECURSIVE NatToString(_)
NatToString(n) ==
    IF n < 10 THEN CharAt(DecimalDigits, n + 1)
    ELSE NatToString(n \div 10) \o CharAt(DecimalDigits, (n % 10) + 1)

\* Number.prototype.toString.
NumberToString(x) ==
    IF x.nan THEN "NaN"
    ELSE IF x.val < 0 THEN "-" \o NatToString(-x.val)
    ELSE NatToString(x.val)

\* String.prototype.padStart(targetLength, "0").
RECURSIVE PadStart(_, _)
PadStart(s, targetLength) ==
    IF Len(s) >= targetLength THEN s ELSE PadStart("0" \o s, targetLength)

\* Math.floor(x / d) for d > 0.
FloorDiv(x, d) == IF x.nan THEN NaN ELSE Num(x.val \div d)

\* The % operator: the remainder takes the sign of the dividend.
JsRem(x, d) ==
    IF x.nan THEN NaN
    ELSE IF x.val >= 0 THEN Num(x.val % d)
    ELSE Num(-((-x.val) % d))

\* The index of the first character of s, from i on, that is not whitespace.
RECURSIVE SkipWhitespace(_, _)
SkipWhitespace(s, i) ==
    IF i <= Len(s) /\ CharAt(s, i) \in WhitespaceChars
    THEN SkipWhitespace(s, i + 1) ELSE i

\* The value of the longest run of decimal digits of s starting at i, given
\* the value acc read so far; [any |-> whether a digit was read, val |-> value].
RECURSIVE ReadDigits(_, _, _, _)
ReadDigits(s, i, acc, any) ==
    IF i <= Len(s) /\ IsDigit(CharAt(s, i))
    THEN ReadDigits(s, i + 1, acc * 10 + DigitValue(CharAt(s, i)), TRUE)
    ELSE [any |-> any, val |-> acc]

\* parseInt(s) without a radix, for strings with no 0x prefix: leading
\* whitespace is skipped, a sign is read, then the longest prefix of digits;
\* NaN when there is no digit.
ParseInt(s) ==
    LET i == SkipWhitespace(s, 1)
        signed == i <= Len(s) /\ CharAt(s, i) \in {"-", "+"}
        negative == signed /\ CharAt(s, i) = "-"
        r == ReadDigits(s, IF signed THEN i + 1 ELSE i, 0, FALSE)
    IN  IF ~r.any THEN NaN
        ELSE IF negative THEN Num(-r.val) ELSE Num(r.val)

----------------------------------------------------------------------------
(* Countdown: startCountdown and its seeding by the DOMContentLoaded handler *)

\* The bound on interval callbacks explored (a countdown seeded with NaN
\* never clears its interval).
MaxTicks == 303

DefaultSeconds == 300
SecondsPerMinute == 60
PadWidth == 2

ExpiredLabel == "monqazi shod"
AlertColor == "#dc3545"
ResendLabel == "ersal-e mojadad"

\* The data-seconds attribute values explored.
SecondsAttrValues ==
    {"", "0", "1", "5", "61", "125", "abc", "12abc", " 7", "-3", "1.5"}

\* What the page's template may have put in the timer element.
InitialTexts == {"", "5:00"}

\* `${minutes}:${secs.toString().padStart(2, '0')}`
FormatRemaining(r) ==
    LET minutes == FloorDiv(r, SecondsPerMinute)
        secs == JsRem(r, SecondsPerMinute)
    IN  NumberToString(minutes) \o ":" \o PadStart(NumberToString(secs), PadWidth)

\* A mutant of Expires: remaining < 0.
ExpiresBelowZero(r) == ~r.nan /\ r.val < 0

\* remaining <= 0 (false for NaN)
Expires(r) == ~r.nan /\ r.val <= 0

\* remaining--
Decrement(r) == IF r.nan THEN NaN ELSE Num(r.val - 1)

\* timerElement.dataset.seconds || 300, as the string parseInt reads.
SeedArgument(el) ==
    IF el.hasSeconds /\ el.seconds # "" THEN el.seconds
    ELSE NumberToString(Num(DefaultSeconds))

AbsentTimer ==
    [present |-> FALSE, hasSeconds |-> FALSE, seconds |-> "",
     textContent |-> "", color |-> ""]
AbsentResend == [present |-> FALSE, disabled |-> FALSE, textContent |-> ""]

CountdownAbsent ==
    /\ timerElement = AbsentTimer
    /\ resendBtn = AbsentResend
    /\ seconds = NaN
    /\ remaining = NaN
    /\ timer = "none"
    /\ ticks = 0
    /\ written = <<>>

CountdownInit ==
    /\ \E has \in BOOLEAN, s \in SecondsAttrValues, t \in InitialTexts :
          /\ (~has => s = "")
          /\ timerElement = [present |-> TRUE, hasSeconds |-> has, seconds |-> s,
                             textContent |-> t, color |-> ""]
    /\ \E p \in BOOLEAN :
          resendBtn = [present |-> p, disabled |-> p,
                       textContent |-> IF p THEN "ersal-e mojadad (montazer)" ELSE ""]
    /\ seconds = NaN
    /\ remaining = NaN
    /\ timer = "none"
    /\ ticks = 0
    /\ written = <<>>

\* startCountdown(seconds, 'countdownTimer'): sets the interval up.
startCountdown(s) ==
    /\ seconds' = s
    /\ remaining' = s
    /\ timer' = "running"

\* The DOMContentLoaded handler's countdown part.
PageLoadCountdown ==
    /\ timerElement.present
    /\ timer = "none"
    /\ startCountdown(ParseInt(SeedArgument(timerElement)))
    /\ UNCHANGED <<timerElement, resendBtn, ticks, written>>
    /\ UNCHANGED notCdVars

\* The resend button after the expiry branch has run.
EnableResend(btn) ==
    IF btn.present
    THEN [btn EXCEPT !.disabled = FALSE, !.textContent = ResendLabel]
    ELSE btn

\* A mutant of TimerAfterTick: clearInterval is never called.
TimerNeverCleared(r) == "running"

\* The interval is cleared when the expiry branch runs.
TimerAfterTick(r) == IF Expires(r) THEN "cleared" ELSE "running"

\* What the callback assigns to display.textContent, in order.
TickWrites(r) ==
    IF Expires(r) THEN <<FormatRemaining(r), ExpiredLabel>>
    ELSE <<FormatRemaining(r)>>

\* One run of the setInterval callback.
Tick ==
    /\ timer = "running"
    /\ ticks < MaxTicks
    /\ written' = TickWrites(remaining)
    /\ timerElement' =
          [timerElement EXCEPT
              !.textContent = written'[Len(written')],
              !.color = IF Expires(remaining) THEN AlertColor ELSE @]
    /\ resendBtn' = IF Expires(remaining) THEN EnableResend(resendBtn) ELSE resendBtn
    /\ timer' = TimerAfterTick(remaining)
    /\ remaining' = Decrement(remaining)
    /\ ticks' = ticks + 1
    /\ UNCHANGED seconds
    /\ UNCHANGED notCdVars

CountdownNext == PageLoadCountdown \/ Tick

----------------------------------------------------------------------------
(* Password strength meter: checkPasswordStrength *)

\* The bounds of the passwords explored: any string of up to MaxPrefixLen
\* characters followed by up to MaxPadLen repetitions of one character.
MaxPrefixLen == 3
MaxPadLen == 10

PasswordAlphabet == {"a", "z", "A", "9", "#", " "}

LowercaseLetters == "abcdefghijklmnopqrstuvwxyz"
UppercaseLetters == "ABCDEFGHIJKLMNOPQRSTUVWXYZ"

LengthThreshold == 8
LongLengthThreshold == 12

\* The characters of a string.
CharsOf(s) == {CharAt(s, i) : i \in 1..Len(s)}

\* The character classes of the four regular expressions.
LowercaseClass == CharsOf(LowercaseLetters)
UppercaseClass == CharsOf(UppercaseLetters)
DigitClass == CharsOf(DecimalDigits)
AlphanumericClass == UppercaseClass \cup LowercaseClass \cup DigitClass

\* /[...]/.test(password) for a positive character class.
TestClass(class, password) ==
    \E i \in 1..Len(password) : CharAt(password, i) \in class

\* /[^A-Za-z0-9]/.test(password)
TestSpecial(password) ==
    \E i \in 1..Len(password) : CharAt(password, i) \notin AlphanumericClass

\* if (condition) strength++
Increment(condition, s) == IF condition THEN s + 1 ELSE s

\* The value of strength after the six checks, in source order.
StrengthOf(password) ==
    LET s1 == Increment(Len(password) >= LengthThreshold, 0)
        s2 == Increment(Len(password) >= LongLengthThreshold, s1)
        s3 == Increment(TestClass(LowercaseClass, password), s2)
        s4 == Increment(TestClass(UppercaseClass, password), s3)
        s5 == Increment(TestClass(DigitClass, password), s4)
    IN  Increment(TestSpecial(password), s5)

WeakTier == [width |-> "33%", color |-> "#dc3545", text |-> "zaif"]
MediumTier == [width |-> "66%", color |-> "#ffc107", text |-> "motevasset"]
StrongTier == [width |-> "100%", color |-> "#198754", text |-> "qavi"]

WeakMax == 2
MediumMax == 4

\* A mutant of StrengthMeter: the first threshold is strength < 2.
StrengthMeterStrictWeak(s) ==
    IF s < WeakMax THEN WeakTier
    ELSE IF s <= MediumMax THEN MediumTier
    ELSE StrongTier

\* switch (true) { case (strength <= 2): ... case (strength <= 4): ... default: ... }
StrengthMeter(s) ==
    IF s <= WeakMax THEN WeakTier
    ELSE IF s <= MediumMax THEN MediumTier
    ELSE StrongTier

RECURSIVE StringsOfLength(_)
StringsOfLength(n) ==
    IF n = 0 THEN {""}
    ELSE {s \o c : s \in StringsOfLength(n - 1), c \in PasswordAlphabet}

RECURSIVE Repeat(_, _)
Repeat(c, n) == IF n = 0 THEN "" ELSE c \o Repeat(c, n - 1)

Passwords ==
    {p \o Repeat(c, k) :
        p \in UNION {StringsOfLength(n) : n \in 0..MaxPrefixLen},
        c \in PasswordAlphabet, k \in 0..MaxPadLen}

AbsentPasswordInput == [present |-> FALSE, value |-> ""]
InitialFill == [width |-> "", backgroundColor |-> ""]
InitialStrengthText == [textContent |-> "", color |-> ""]
NotCalledStrength == [called |-> FALSE, value |-> 0]

StrengthAbsent ==
    /\ passwordInput = AbsentPasswordInput
    /\ strengthFill = InitialFill
    /\ strengthText = InitialStrengthText
    /\ strength = NotCalledStrength

\* The user has typed a value into #password; its input event is pending.
StrengthInit ==
    /\ \E p \in Passwords : passwordInput = [present |-> TRUE, value |-> p]
    /\ strengthFill = InitialFill
    /\ strengthText = InitialStrengthText
    /\ strength = NotCalledStrength

\* checkPasswordStrength(password)
checkPasswordStrength(password) ==
    IF password = ""
    THEN /\ strengthFill' = [width |-> "0%", backgroundColor |-> "#e9ecef"]
         /\ strengthText' = [strengthText EXCEPT !.textContent = ""]
         /\ strength' = [called |-> TRUE, value |-> 0]
    ELSE /\ strength' = [called |-> TRUE, value |-> StrengthOf(password)]
         /\ LET m == StrengthMeter(strength'.value)
            IN  /\ strengthFill' = [width |-> m.width, backgroundColor |-> m.color]
                /\ strengthText' = [textContent |-> m.text, color |-> m.color]

\* The input listener the DOMContentLoaded handler puts on #password.
PasswordInputEvent ==
    /\ passwordInput.present
    /\ ~strength.called
    /\ checkPasswordStrength(passwordInput.value)
    /\ UNCHANGED passwordInput
    /\ UNCHANGED notPwVars

StrengthNext == PasswordInputEvent

----------------------------------------------------------------------------
(* OTP slots: setupOTPInputs *)

\* The number of .otp-input slots and the longest value a slot may hold
\* (a slot without maxlength="1" accepts more than one character).
NumSlots == 3
MaxSlotLen == 2

OtpChar == "7"

SlotValues == {Repeat(OtpChar, n) : n \in 0..MaxSlotLen}

Keys == {"Backspace", "Tab", OtpChar}

SlotIndices == 0..(NumSlots - 1)

NoEvent == [type |-> "none", index |-> 0, key |-> "", serial |-> 0]

\* The event after e: the serial alternates, so that two equal events in a
\* row are two steps.
NextEvent(e, type, index, key) ==
    [type |-> type, index |-> index, key |-> key, serial |-> 1 - e.serial]

OtpAbsent ==
    /\ otpInputs = <<>>
    /\ focus = -1
    /\ otpEvent = NoEvent

\* The page after setupOTPInputs has attached the listeners; the page-load
\* handler has focused the first input of the form when the slots are in one.
OtpInit ==
    /\ otpInputs = [i \in SlotIndices |-> ""]
    /\ focus \in {-1, 0}
    /\ otpEvent = NoEvent

\* A mutant of AdvanceTarget: index <= otpInputs.length - 1, with the focus
\* wrapping to the first slot.
AdvanceTargetWrapping(index, value, n, current) ==
    IF Len(value) = 1
    THEN IF index <= n - 1 THEN (index + 1) % n ELSE current
    ELSE current

\* The input listener of slot index: where the focus is afterwards.
AdvanceTarget(index, value, n, current) ==
    IF Len(value) = 1
    THEN IF index < n - 1 THEN index + 1 ELSE current
    ELSE current

\* The keydown listener of slot index: where the focus is afterwards.
RetreatTarget(index, key, value, current) ==
    IF key = "Backspace" /\ value = ""
    THEN IF index > 0 THEN index - 1 ELSE current
    ELSE current

\* The user (or the browser's autofill) changes the value of slot i to v and
\* the slot's input listener runs.
OtpInput(i, v) ==
    /\ otpInputs' = [otpInputs EXCEPT ![i] = v]
    /\ focus' = AdvanceTarget(i, v, NumSlots, focus)
    /\ otpEvent' = NextEvent(otpEvent, "input", i, "")
    /\ UNCHANGED notOtpVars

\* A key goes down in the focused slot i and the slot's keydown listener runs
\* (the key's own effect on the value arrives as a later input event).
OtpKeydown(i, key) ==
    /\ focus = i
    /\ focus' = RetreatTarget(i, key, otpInputs[i], focus)
    /\ otpEvent' = NextEvent(otpEvent, "keydown", i, key)
    /\ UNCHANGED otpInputs
    /\ UNCHANGED notOtpVars

\* The user moves the focus (a click, the Tab key), to a slot or elsewhere.
OtpUserFocus(i) ==
    /\ otpInputs # <<>>
    /\ focus # i
    /\ focus' = i
    /\ otpEvent' = NextEvent(otpEvent, "focus", IF i < 0 THEN 0 ELSE i, "")
    /\ UNCHANGED otpInputs
    /\ UNCHANGED notOtpVars

OtpNext ==
    \/ \E i \in DOMAIN otpInputs, v \in SlotValues : OtpInput(i, v)
    \/ \E i \in DOMAIN otpInputs, key \in Keys : OtpKeydown(i, key)
    \/ \E i \in DOMAIN otpInputs \cup {-1} : OtpUserFocus(i)

----------------------------------------------------------------------------
(* Form validation: validateForm *)

\* The number of fields of the form.
NumFields == 2

FieldValues == {"", " ", "a", " a ", "\t "}

\* s without its leading whitespace.
RECURSIVE TrimStart(_)
TrimStart(s) ==
    IF s # "" /\ Head(s) \in WhitespaceChars THEN TrimStart(Tail(s)) ELSE s

\* s without its trailing whitespace.
RECURSIVE TrimEnd(_)
TrimEnd(s) ==
    IF s # "" /\ CharAt(s, Len(s)) \in WhitespaceChars
    THEN TrimEnd(SubSeq(s, 1, Len(s) - 1)) ELSE s

\* String.prototype.trim
Trim(s) == TrimEnd(TrimStart(s))

\* form.querySelectorAll('[required]'): the required fields, in document order.
RequiredInputs(fields) == SelectSeq([i \in 1..Len(fields) |-> i], LAMBDA i : fields[i].required)

\* A mutant of ValidateFrom: the loop stops at the first blank field.
RECURSIVE ValidateUntilBlank(_, _, _)
ValidateUntilBlank(acc, inputs, k) ==
    IF k > Len(inputs) THEN acc
    ELSE LET i == inputs[k]
         IN  IF Trim(acc.fields[i].value) = ""
             THEN [fields |-> [acc.fields EXCEPT ![i].invalid = TRUE],
                   isValid |-> FALSE, visited |-> acc.visited + 1]
             ELSE ValidateUntilBlank(
                      [fields |-> [acc.fields EXCEPT ![i].invalid = FALSE],
                       isValid |-> acc.isValid, visited |-> acc.visited + 1],
                      inputs, k + 1)

\* inputs.forEach(input => { ... }) from the k-th required field on.
RECURSIVE ValidateFrom(_, _, _)
ValidateFrom(acc, inputs, k) ==
    IF k > Len(inputs) THEN acc
    ELSE LET i == inputs[k]
         IN  IF Trim(acc.fields[i].value) = ""
             THEN ValidateFrom(
                      [fields |-> [acc.fields EXCEPT ![i].invalid = TRUE],
                       isValid |-> FALSE, visited |-> acc.visited + 1],
                      inputs, k + 1)
             ELSE ValidateFrom(
                      [fields |-> [acc.fields EXCEPT ![i].invalid = FALSE],
                       isValid |-> acc.isValid, visited |-> acc.visited + 1],
                      inputs, k + 1)

NotCalledForm == [called |-> FALSE, isValid |-> TRUE, visited |-> 0]

FormAbsent ==
    /\ formFields = <<>>
    /\ formReturn = NotCalledForm

\* A form as the server rendered it: any field may be required, hold any
\* value and carry the is-invalid class.
FormInit ==
    /\ formFields \in [1..NumFields ->
                          [required : BOOLEAN, value : FieldValues, invalid : BOOLEAN]]
    /\ formReturn = NotCalledForm

\* validateForm(formId)
validateForm ==
    /\ formFields # <<>>
    /\ UNCHANGED notFormVars
    /\ LET r == ValidateFrom([fields |-> formFields, isValid |-> TRUE, visited |-> 0],
                             RequiredInputs(formFields), 1)
       IN  /\ formFields' = r.fields
           /\ formReturn' = [called |-> TRUE, isValid |-> r.isValid,
                             visited |-> r.visited]

\* The user edits field i; the value validateForm returned is of no use any more.
EditField(i, v) ==
    /\ formFields[i].value # v
    /\ formFields' = [formFields EXCEPT ![i].value = v]
    /\ formReturn' = NotCalledForm
    /\ UNCHANGED notFormVars

FormNext ==
    \/ validateForm
    \/ \E i \in DOMAIN formFields, v \in FieldValues : EditField(i, v)

----------------------------------------------------------------------------
(* Phone formatting: formatPhoneNumber *)

\* The most digits that follow a prefix in the arguments explored.
MaxPhoneDigits == 11

NationalLength == 10

PhonePrefixes == {"", "98", "0", "+98", "098", "0098", "980", "+98 0"}

PhoneDigitSources == {"91234567890123", "09123456789012", "98123456789012"}

PhoneArgs ==
    {p \o SubSeq(d, 1, k) : p \in PhonePrefixes, d \in PhoneDigitSources,
                            k \in 0..MaxPhoneDigits}
    \cup {"0912 345 6789", "+98 (912) 345-6789", "abc", "912-345-6789 ext 4"}

\* phone.replace(/\D/g, '')
RECURSIVE RemoveNonDigits(_)
RemoveNonDigits(s) ==
    IF s = "" THEN ""
    ELSE (IF IsDigit(Head(s)) THEN Head(s) ELSE "") \o RemoveNonDigits(Tail(s))

\* String.prototype.startsWith
StartsWith(s, prefix) ==
    Len(s) >= Len(prefix) /\ SubSeq(s, 1, Len(prefix)) = prefix

\* String.prototype.substring(start)
SubstringFrom(s, start) == SubSeq(s, start + 1, Len(s))

\* String.prototype.substring(start, end), for 0 <= start <= end
Substring(s, start, end) ==
    SubSeq(s, start + 1, IF end > Len(s) THEN Len(s) ELSE end)

\* A mutant of StripPrefixes: the leading "0" is stripped before the "98".
StripZeroFirst(digits) ==
    LET p == IF StartsWith(digits, "0") THEN SubstringFrom(digits, 1) ELSE digits
    IN  IF StartsWith(p, "98") THEN SubstringFrom(p, 2) ELSE p

\* The two prefix-stripping steps, in source order.
StripPrefixes(digits) ==
    LET p == IF StartsWith(digits, "98") THEN SubstringFrom(digits, 2) ELSE digits
    IN  IF StartsWith(p, "0") THEN SubstringFrom(p, 1) ELSE p

\* formatPhoneNumber(phone)
formatPhoneNumber(phone) ==
    LET p == StripPrefixes(RemoveNonDigits(phone))
    IN  IF Len(p) = NationalLength
        THEN "0" \o Substring(p, 0, 3) \o " " \o Substring(p, 3, 6)
                 \o " " \o Substring(p, 6, 10)
        ELSE p

NoPhoneCall == [state |-> "none", value |-> ""]
PendingPhoneCall == [state |-> "pending", value |-> ""]

PhoneAbsent ==
    /\ phoneArg = ""
    /\ phoneReturn = NoPhoneCall

\* A caller is about to format an argument.
PhoneInit ==
    /\ phoneArg \in PhoneArgs
    /\ phoneReturn = PendingPhoneCall

\* The call returns.
FormatPhone ==
    /\ phoneReturn.state = "pending"
    /\ phoneReturn' = [state |-> "returned", value |-> formatPhoneNumber(phoneArg)]
    /\ UNCHANGED phoneArg
    /\ UNCHANGED notPhoneVars

PhoneNext == FormatPhone

----------------------------------------------------------------------------
(* Authenticated requests: getToken, showLoading, hideLoading, showToast,
   makeAuthRequest *)

\* The page holds the #liveToast element and the bootstrap toolkit, so that
\* showToast does not throw; the data passed to a call is JSON-serializable.
\* Assigning window.location.href starts a navigation; the handlers of the
\* calls in flight may still run before the page is unloaded.

\* The number of makeAuthRequest calls a page makes.
NumCalls == 2

CallIds == 1..NumCalls

TokenName == "access_token"
LoginPath == "/login"
PagePath == "/dashboard"

Unauthorized == 401
HttpStatuses == {200, 401, 500}

\* The values of document.cookie explored.
Cookies ==
    {"", "access_token=abc", "sessionid=1; access_token=abc", "access_token=",
     "access_token", "xaccess_token=abc", "csrftoken=x;access_token=a=b"}

\* String.prototype.split(sep) for a one-character separator: cur is the
\* piece being read.
RECURSIVE SplitFrom(_, _, _)
SplitFrom(s, sep, cur) ==
    IF s = "" THEN <<cur>>
    ELSE IF Head(s) = sep THEN <<cur>> \o SplitFrom(Tail(s), sep, "")
    ELSE SplitFrom(Tail(s), sep, cur \o Head(s))

Split(s, sep) == SplitFrom(s, sep, "")

\* JavaScript values a token may be.
Undefined == [kind |-> "undefined", value |-> ""]
Null == [kind |-> "null", value |-> ""]
Str(s) == [kind |-> "string", value |-> s]

\* const [name, value] = parts
Destructure(parts) ==
    [name |-> parts[1], value |-> IF Len(parts) >= 2 THEN Str(parts[2]) ELSE Undefined]

\* The for loop of getToken from the k-th cookie on.
RECURSIVE TokenFrom(_, _)
TokenFrom(cookies, k) ==
    IF k > Len(cookies) THEN Null
    ELSE LET nv == Destructure(Split(Trim(cookies[k]), "="))
         IN  IF nv.name = TokenName THEN nv.value ELSE TokenFrom(cookies, k + 1)

\* getToken()
getToken(c) == TokenFrom(Split(c, ";"), 1)

\* A mutant of Falsy: only null and undefined are rejected.
FalsyNullish(v) == v.kind \in {"undefined", "null"}

\* !token
Falsy(v) == v.kind \in {"undefined", "null"} \/ v.value = ""

\* showLoading: document.body.appendChild(overlay), for the call that adds it.
showLoading(os, c) == Append(os, c)

\* hideLoading: the first .loading-overlay of the document is removed.
hideLoading(os) == IF os = <<>> THEN os ELSE Tail(os)

ToastClasses ==
    [success |-> "alert-success", error |-> "alert-danger",
     warning |-> "alert-warning", info |-> "alert-info"]

\* showToast(message, type)
showToast(t, message, type) ==
    [body |-> message,
     className |-> "toast " \o (IF type \in DOMAIN ToastClasses
                                THEN ToastClasses[type] ELSE "alert-info"),
     shows |-> t.shows + 1]

NoToast == [body |-> "", className |-> "toast", shows |-> 0]

NewCall ==
    [pc |-> "idle", token |-> Null, status |-> 0, result |-> "pending",
     fetched |-> FALSE, overlay |-> FALSE, parsed |-> FALSE, toast |-> "none"]

AuthAbsent ==
    /\ cookie = ""
    /\ calls = <<>>
    /\ overlays = <<>>
    /\ liveToast = NoToast
    /\ location = PagePath
    /\ fetchCount = 0
    /\ consoleErrors = 0

AuthInit ==
    /\ cookie \in Cookies
    /\ calls = [c \in CallIds |-> NewCall]
    /\ overlays = <<>>
    /\ liveToast = NoToast
    /\ location = PagePath
    /\ fetchCount = 0
    /\ consoleErrors = 0

\* makeAuthRequest up to its first await: the token check, and with a token
\* showLoading and the fetch.
Invoke(c) ==
    /\ calls[c].pc = "idle"
    /\ LET token == getToken(cookie)
       IN  IF Falsy(token)
           THEN /\ location' = LoginPath
                /\ calls' = [calls EXCEPT ![c].pc = "done", ![c].token = token,
                                          ![c].result = "undefined"]
                /\ UNCHANGED <<overlays, fetchCount>>
           ELSE /\ overlays' = showLoading(overlays, c)
                /\ fetchCount' = fetchCount + 1
                /\ calls' = [calls EXCEPT ![c].pc = "awaitFetch", ![c].token = token,
                                          ![c].fetched = TRUE, ![c].overlay = TRUE]
                /\ UNCHANGED location
    /\ UNCHANGED <<cookie, liveToast, consoleErrors>>
    /\ UNCHANGED notAuthVars

\* A mutant of AfterResponse: a 401 is not told apart from other responses.
AfterResponseIgnoring401(c, status) ==
    /\ calls' = [calls EXCEPT ![c].pc = "awaitJson", ![c].status = status,
                              ![c].parsed = TRUE]
    /\ UNCHANGED <<liveToast, location>>

\* The statements after hideLoading() once the response has arrived.
AfterResponse(c, status) ==
    IF status = Unauthorized
    THEN /\ liveToast' = showToast(liveToast, "lotfan mojaddadan vared shavid", "warning")
         /\ location' = LoginPath
         /\ calls' = [calls EXCEPT ![c].pc = "done", ![c].status = status,
                                   ![c].result = "null", ![c].toast = "warning"]
    ELSE /\ calls' = [calls EXCEPT ![c].pc = "awaitJson", ![c].status = status,
                                   ![c].parsed = TRUE]
         /\ UNCHANGED <<liveToast, location>>

\* The fetch promise fulfils with a response of the status: hideLoading, then
\* the 401 branch or the call of response.json().
FetchFulfils(c, status) ==
    /\ calls[c].pc = "awaitFetch"
    /\ overlays' = hideLoading(overlays)
    /\ AfterResponse(c, status)
    /\ UNCHANGED <<cookie, fetchCount, consoleErrors>>
    /\ UNCHANGED notAuthVars

\* The catch block.
Catch(c) ==
    /\ overlays' = hideLoading(overlays)
    /\ liveToast' = showToast(liveToast, "khata dar ertebat ba server", "error")
    /\ consoleErrors' = consoleErrors + 1
    /\ calls' = [calls EXCEPT ![c].pc = "done", ![c].result = "null",
                              ![c].toast = "error"]
    /\ UNCHANGED <<cookie, location, fetchCount>>
    /\ UNCHANGED notAuthVars

\* The fetch promise rejects (a network error).
FetchRejects(c) ==
    /\ calls[c].pc = "awaitFetch"
    /\ Catch(c)

\* response.json() fulfils: the call returns the parsed body.
JsonFulfils(c) ==
    /\ calls[c].pc = "awaitJson"
    /\ calls' = [calls EXCEPT ![c].pc = "done", ![c].result = "json"]
    /\ UNCHANGED <<cookie, overlays, liveToast, location, fetchCount, consoleErrors>>
    /\ UNCHANGED notAuthVars

\* response.json() rejects (the body is not JSON).
JsonRejects(c) ==
    /\ calls[c].pc = "awaitJson"
    /\ Catch(c)

\* The cookie changes between calls (a login, a logout, an expiry).
SetCookie(v) ==
    /\ calls # <<>>
    /\ cookie # v
    /\ cookie' = v
    /\ UNCHANGED <<calls, overlays, liveToast, location, fetchCount, consoleErrors>>
    /\ UNCHANGED notAuthVars

AuthNext ==
    \/ \E c \in DOMAIN calls : Invoke(c)
    \/ \E c \in DOMAIN calls, status \in HttpStatuses : FetchFulfils(c, status)
    \/ \E c \in DOMAIN calls : FetchRejects(c)
    \/ \E c \in DOMAIN calls : JsonFulfils(c)
    \/ \E c \in DOMAIN calls : JsonRejects(c)
    \/ \E v \in Cookies : SetCookie(v)

----------------------------------------------------------------------------
(* The specification: a page holds one of the components, the others being
   absent *)

Init ==
    \/ CountdownInit /\ StrengthAbsent /\ OtpAbsent /\ FormAbsent /\ PhoneAbsent /\ AuthAbsent
    \/ CountdownAbsent /\ StrengthInit /\ OtpAbsent /\ FormAbsent /\ PhoneAbsent /\ AuthAbsent
    \/ CountdownAbsent /\ StrengthAbsent /\ OtpInit /\ FormAbsent /\ PhoneAbsent /\ AuthAbsent
    \/ CountdownAbsent /\ StrengthAbsent /\ OtpAbsent /\ FormInit /\ PhoneAbsent /\ AuthAbsent
    \/ CountdownAbsent /\ StrengthAbsent /\ OtpAbsent /\ FormAbsent /\ PhoneInit /\ AuthAbsent
    \/ CountdownAbsent /\ StrengthAbsent /\ OtpAbsent /\ FormAbsent /\ PhoneAbsent /\ AuthInit

Next == CountdownNext \/ StrengthNext \/ OtpNext \/ FormNext \/ PhoneNext \/ AuthNext

Spec == Init /\ [][Next]_vars
----------------------------------------------------------------------------
(* Countdown: properties *)

CountdownStarted == timer # "none"

\* What startCountdown(5, ...) leaves displayed after its 1st .. 5th tick.
CountdownFromFive == <<"0:05", "0:04", "0:03", "0:02", "0:01">>

C1_Ticks ==
    (CountdownStarted /\ seconds = Num(5)) =>
        /\ ticks <= 6
        /\ ticks = 0 => timer = "running"
        /\ ticks \in 1..5 =>
              /\ timer = "running"
              /\ written = <<CountdownFromFive[ticks]>>
              /\ timerElement.textContent = CountdownFromFive[ticks]
        /\ ticks = 6 =>
              /\ timer = "cleared"
              /\ written = <<"0:00", ExpiredLabel>>
              /\ timerElement.textContent = ExpiredLabel
              /\ timerElement.color = AlertColor

C1_StaysExpired ==
    (seconds = Num(5) /\ timerElement.textContent = ExpiredLabel) =>
        /\ timerElement'.textContent = ExpiredLabel
        /\ ticks' = ticks

\* C1: startCountdown(5, id) leaves "0:05", "0:04", "0:03", "0:02", "0:01"
\* displayed after its first five ticks, one value per tick in that order;
\* the sixth tick writes "0:00" and then the expired label and clears the
\* interval; from then on no tick runs and the display keeps the expired label.
C1_CountdownFromFive == []C1_Ticks /\ [][C1_StaysExpired]_vars

C1_Witness ==
    /\ seconds = Num(5)
    /\ ticks = 6
    /\ timer = "cleared"
    /\ timerElement.textContent = ExpiredLabel

\* C2 as stated: for a duration n >= 0 the tick that fires expiry (clears
\* the interval) follows a tick that left "0:00" displayed while the timer
\* was running.
C2_ZeroShownBeforeExpiry ==
    [][(timer = "running" /\ timer' = "cleared" /\ ~seconds.nan /\ seconds.val >= 0)
          => timerElement.textContent = "0:00"]_vars

C2_Step ==
    (timer = "running" /\ ~seconds.nan /\ seconds.val >= 0) =>
        /\ ticks' # ticks => timerElement'.textContent # "0:00"
        /\ timer' = "cleared" =>
              /\ remaining = Num(0)
              /\ ticks' = seconds.val + 1
              /\ written' = <<"0:00", ExpiredLabel>>
              /\ timerElement'.textContent = ExpiredLabel
              /\ seconds.val >= 1 => timerElement.textContent = "0:01"
        /\ (ticks' # ticks /\ remaining = Num(0)) => timer' = "cleared"

\* C2 (amended): for a duration n >= 0 expiry fires on tick n + 1, the tick
\* that finds the remaining count at 0.  That tick writes "0:00" and replaces
\* it by the expired label before it returns, so no tick leaves "0:00"
\* displayed; the last value displayed while the timer runs is "0:01" (n >= 1).
C2_ZeroReplacedWithinExpiryTick == [][C2_Step]_vars

C2_Witness ==
    /\ timer = "cleared"
    /\ ~seconds.nan /\ seconds.val >= 1
    /\ written = <<"0:00", ExpiredLabel>>
    /\ ticks = seconds.val + 1

HasNoDigit(s) == \A i \in 1..Len(s) : ~IsDigit(CharAt(s, i))

IsDecimalInteger(s) == s # "" /\ \A i \in 1..Len(s) : IsDigit(CharAt(s, i))

SecondsAbsentOrUnparseable ==
    ~timerElement.hasSeconds \/ HasNoDigit(timerElement.seconds)

\* C3: the page-load handler seeds the countdown with a whole number of
\* seconds: the attribute's number when it is a decimal integer, 300 when the
\* attribute is absent, empty or holds no number; the countdown seeded with
\* 300 has expired once 301 ticks have run.
C3_SeedDefaultsTo300 ==
    CountdownStarted =>
        /\ ~seconds.nan
        /\ SecondsAbsentOrUnparseable => seconds = Num(DefaultSeconds)
        /\ IsDecimalInteger(timerElement.seconds) =>
              NumberToString(seconds) = timerElement.seconds
        /\ (SecondsAbsentOrUnparseable /\ ticks > DefaultSeconds) => timer = "cleared"


----------------------------------------------------------------------------
(* Password strength meter: properties *)

\* The six conditions of the score, by number.
Satisfies(p, k) ==
    CASE k = 1 -> Len(p) >= 8
      [] k = 2 -> Len(p) >= 12
      [] k = 3 -> CharsOf(p) \cap LowercaseClass # {}
      [] k = 4 -> CharsOf(p) \cap UppercaseClass # {}
      [] k = 5 -> CharsOf(p) \cap DigitClass # {}
      [] k = 6 -> CharsOf(p) \ AlphanumericClass # {}

ScoreOf(p) == Cardinality({k \in 1..6 : Satisfies(p, k)})

\* How many of the four character classes p draws from.
ClassesUsed(p) == Cardinality({k \in 3..6 : Satisfies(p, k)})

ShowsTier(tier) ==
    /\ strengthFill = [width |-> tier.width, backgroundColor |-> tier.color]
    /\ strengthText = [textContent |-> tier.text, color |-> tier.color]

\* C4: for a non-empty password the score is the number of satisfied
\* conditions among the six and lies in 0..6; the meter shows weak (33%) iff
\* the score is at most 2, medium (66%) iff it is 3 or 4, strong (100%) iff it
\* is at least 5; a password shorter than 8 of one character class is weak and
\* one of at least 12 with all four classes scores 6 and is strong.
C4_ScoreAndTier ==
    (strength.called /\ passwordInput.value # "") =>
        LET p == passwordInput.value
            score == ScoreOf(p)
        IN  /\ strength.value = score
            /\ score \in 0..6
            /\ strengthFill.width \in {"33%", "66%", "100%"}
            /\ strengthFill.width = "33%" <=> score <= 2
            /\ strengthFill.width = "66%" <=> score \in {3, 4}
            /\ strengthFill.width = "100%" <=> score >= 5
            /\ ShowsTier(WeakTier) <=> score <= 2
            /\ ShowsTier(MediumTier) <=> score \in {3, 4}
            /\ ShowsTier(StrongTier) <=> score >= 5
            /\ (Len(p) < 8 /\ ClassesUsed(p) = 1) => ShowsTier(WeakTier)
            /\ (Len(p) >= 12 /\ ClassesUsed(p) = 4) =>
                  (strength.value = 6 /\ ShowsTier(StrongTier))

C4_Witness ==
    /\ strength.called
    /\ Len(passwordInput.value) >= 12
    /\ ClassesUsed(passwordInput.value) = 4
    /\ strength.value = 6
    /\ strengthFill.width = "100%"

----------------------------------------------------------------------------
(* OTP slots: properties *)

C7_FocusInRange == otpInputs # <<>> => focus \in -1..(NumSlots - 1)

C7_Step ==
    (otpEvent' # otpEvent) =>
        LET e == otpEvent'
            i == e.index
            last == NumSlots - 1
        IN  /\ e.type = "input" =>
                  /\ (Len(otpInputs'[i]) = 1 /\ i < last) => focus' = i + 1
                  /\ (Len(otpInputs'[i]) # 1 \/ i = last) => focus' = focus
            /\ e.type = "keydown" =>
                  /\ (e.key = "Backspace" /\ otpInputs[i] = "" /\ i > 0) => focus' = i - 1
                  /\ (e.key # "Backspace" \/ otpInputs[i] # "" \/ i = 0) => focus' = focus
            /\ (e.type \in {"input", "keydown"} /\ focus' # focus) =>
                  /\ focus' \in {i + 1, i - 1}
                  /\ focus' \in 0..last

\* C7: over N slots the listeners move the focus only to slot i + 1, when
\* slot i < N - 1 receives an input that leaves it one character long, or to
\* slot i - 1, when Backspace goes down in an empty slot i > 0; an input in
\* the last slot, a Backspace in the first slot and a Backspace in a
\* non-empty slot leave the focus where it is, so the focus never wraps.
C7_FocusNeverWraps == []C7_FocusInRange /\ [][C7_Step]_vars

C7_Witness ==
    /\ otpEvent.type = "keydown"
    /\ otpEvent.key = "Backspace"
    /\ otpEvent.index = NumSlots - 1
    /\ otpInputs[NumSlots - 1] = ""
    /\ focus = NumSlots - 2
    /\ Len(otpInputs[0]) = 1

----------------------------------------------------------------------------
(* Form validation: properties *)

IsBlank(v) == \A k \in 1..Len(v) : CharAt(v, k) \in WhitespaceChars

RequiredFields == {i \in 1..Len(formFields) : formFields[i].required}

\* C8: after validateForm a required field carries is-invalid iff its value
\* is blank, the result is false iff some required field is flagged (true iff
\* every required field is non-blank), and every required field was visited.
C8_ValidateForm ==
    formReturn.called =>
        /\ \A i \in RequiredFields :
              formFields[i].invalid <=> IsBlank(formFields[i].value)
        /\ ~formReturn.isValid <=> \E i \in RequiredFields : formFields[i].invalid
        /\ formReturn.isValid <=> \A i \in RequiredFields : ~IsBlank(formFields[i].value)
        /\ formReturn.visited = Cardinality(RequiredFields)

\* A blank required field before a filled one that carried a stale flag.
C8_Witness ==
    /\ formReturn.called
    /\ ~formReturn.isValid
    /\ \E i, j \in RequiredFields :
          /\ i < j
          /\ IsBlank(formFields[i].value) /\ formFields[i].invalid
          /\ ~IsBlank(formFields[j].value) /\ ~formFields[j].invalid
    /\ formReturn.visited >= 2

----------------------------------------------------------------------------
(* Phone formatting: properties *)

\* The digits of s, in order.
RECURSIVE DigitsOf(_)
DigitsOf(s) ==
    IF s = "" THEN ""
    ELSE LET last == CharAt(s, Len(s))
         IN  DigitsOf(SubSeq(s, 1, Len(s) - 1)) \o (IF last \in DigitClass THEN last ELSE "")

\* The digits of s without a leading "98" and then without a leading "0".
ReducedDigits(s) ==
    LET d == DigitsOf(s)
        a == IF Len(d) >= 2 /\ SubSeq(d, 1, 2) = "98" THEN SubSeq(d, 3, Len(d)) ELSE d
    IN  IF Len(a) >= 1 /\ SubSeq(a, 1, 1) = "0" THEN SubSeq(a, 2, Len(a)) ELSE a

Grouped(d) == "0" \o SubSeq(d, 1, 3) \o " " \o SubSeq(d, 4, 6) \o " " \o SubSeq(d, 7, 10)

C9_FormatsTenDigits ==
    /\ Len(ReducedDigits(phoneArg)) = 10 => phoneReturn.value = Grouped(ReducedDigits(phoneArg))
    /\ phoneArg \in {"989123456789", "09123456789"} => phoneReturn.value = "0912 345 6789"

\* C9 as stated: ten reduced digits are grouped as 0ddd ddd dddd, and any
\* other argument is returned as it was passed in.
C9_OtherwiseReturnsArgument ==
    phoneReturn.state = "returned" =>
        /\ C9_FormatsTenDigits
        /\ Len(ReducedDigits(phoneArg)) # 10 => phoneReturn.value = phoneArg

\* C9 (amended): ten reduced digits are grouped as 0ddd ddd dddd; any other
\* argument is returned as its reduced digits (non-digits removed, a leading
\* "98" and then a leading "0" stripped), which is the argument itself only
\* when nothing was removed.
C9_OtherwiseReturnsReducedDigits ==
    phoneReturn.state = "returned" =>
        /\ C9_FormatsTenDigits
        /\ Len(ReducedDigits(phoneArg)) # 10 =>
              /\ phoneReturn.value = ReducedDigits(phoneArg)
              /\ phoneReturn.value = phoneArg <=>
                    /\ phoneArg = DigitsOf(phoneArg)
                    /\ ~StartsWith(phoneArg, "98")
                    /\ ~StartsWith(phoneArg, "0")

C9_Witness ==
    /\ phoneReturn.state = "returned"
    /\ phoneArg = "0912"
    /\ phoneReturn.value = "912"

----------------------------------------------------------------------------
(* Authenticated requests: properties *)

NoTokenReturned(t) == t = Null \/ t = Undefined \/ t = Str("")

Invoked(c) == calls[c].pc # "idle"

C5_NoTokenOutcome ==
    \A c \in DOMAIN calls :
        (Invoked(c) /\ NoTokenReturned(calls[c].token)) =>
            /\ calls[c].pc = "done"
            /\ calls[c].result = "undefined"
            /\ ~calls[c].fetched
            /\ ~calls[c].overlay
            /\ calls[c].toast = "none"
            /\ location = LoginPath

C5_FetchesCounted ==
    calls # <<>> => fetchCount = Cardinality({c \in DOMAIN calls : calls[c].fetched})

C5_NoTokenStep ==
    \A c \in DOMAIN calls :
        (~Invoked(c) /\ NoTokenReturned(calls'[c].token) /\ calls'[c].pc # "idle") =>
            /\ fetchCount' = fetchCount
            /\ overlays' = overlays
            /\ liveToast' = liveToast
            /\ location' = LoginPath

\* C5: a makeAuthRequest call for which getToken returns null, undefined or
\* the empty string invokes fetch zero times, adds no loading overlay, shows
\* no toast, sets the location to /login and resolves with undefined.
C5_NoTokenNoRequest ==
    []C5_NoTokenOutcome /\ []C5_FetchesCounted /\ [][C5_NoTokenStep]_vars

C5_Witness ==
    \E c, d \in DOMAIN calls :
        /\ calls[c].pc = "done" /\ calls[c].token = Str("") /\ calls[c].result = "undefined"
        /\ calls[d].fetched
        /\ fetchCount = 1

Got401(c) == calls[c].status = Unauthorized

C6_401Outcome ==
    \A c \in DOMAIN calls :
        Got401(c) =>
            /\ calls[c].pc = "done"
            /\ calls[c].result = "null"
            /\ calls[c].toast = "warning"
            /\ ~calls[c].parsed
            /\ location = LoginPath

\* C6 as stated: a call that received a 401 has resolved to null, redirected
\* to /login, shown a warning toast, never parsed the body, and the loading
\* overlay it showed is no longer in the document.
C6_OwnOverlayRemoved ==
    /\ C6_401Outcome
    /\ \A c \in DOMAIN calls :
          Got401(c) => \A k \in 1..Len(overlays) : overlays[k] # c

C6_401Step ==
    \A c \in DOMAIN calls :
        (~Got401(c) /\ calls'[c].status = Unauthorized) =>
            /\ calls[c].pc = "awaitFetch"
            /\ overlays # <<>> => overlays' = Tail(overlays)
            /\ overlays = <<>> => overlays' = <<>>
            /\ overlays = <<c>> => overlays' = <<>>
            /\ liveToast'.className = "toast alert-warning"
            /\ liveToast'.shows = liveToast.shows + 1
            /\ consoleErrors' = consoleErrors

\* C6 (amended): a call that receives a 401 resolves to null without
\* throwing, redirects to /login, shows a warning toast and never parses the
\* body; it removes the first loading overlay of the document, which is the
\* one it showed when no overlay of another call precedes it.
C6_401RemovesFirstOverlay == []C6_401Outcome /\ [][C6_401Step]_vars

C6_Witness ==
    \E c \in DOMAIN calls :
        /\ Got401(c)
        /\ calls[c].result = "null"
        /\ overlays = <<c>>
        /\ liveToast.className = "toast alert-warning"

\* C10: while some call awaits its fetch response a loading overlay is in the
\* document, and once every call has resolved none is left.
C10_OverlayForDuration ==
    calls # <<>> =>
        /\ (\E c \in DOMAIN calls : calls[c].pc = "awaitFetch") => overlays # <<>>
        /\ (\A c \in DOMAIN calls : calls[c].pc = "done") => overlays = <<>>
====
